---- MODULE Spec2Model ----
(***************************************************************************)
(* A model of src/postcode_parser.py: the PostcodeParser pipeline that     *)
(* loads postcode polygons, postcode attributes and vertical-street        *)
(* records from a nested archive into a PostgreSQL store.                  *)
(*                                                                         *)
(* Texts are sequences of symbols: a column name is one symbol, and the    *)
(* field delimiter and the line terminator are symbols of their own, so    *)
(* readlines / split / lower are computed as Python computes them.         *)
(* Tables are records of a column list, a type list, a row list and a      *)
(* primary key; SQL statements are records run by an interpreter.          *)
(***************************************************************************)
EXTENDS Integers, Sequences, FiniteSets, TLC

VARIABLES
    gdrive,       \* the remote folder: the archive, the header text, the files it holds
    db,           \* the store: tables and indexes
    files,        \* the files of the working directory (base_path)
    zip_file,     \* self.zip_file   ("" while the attribute is unset)
    header_file,  \* self.header_file ("" while the attribute is unset)
    pc,           \* the position of parse(): the stage to run next
    run,          \* the number of the current call of parse()
    trace,        \* the stages this call of parse() has entered, in order
    last,         \* what the stage that ran last did (its outcome and environment)
    logged,       \* the number of errors copy_from_csv printed in this call of parse()
    faults,       \* the number of environment failures met so far
    snap          \* the final tables at the end of each call of parse() that ended

vars == <<gdrive, db, files, zip_file, header_file, pc, run, trace, last, logged, faults, snap>>

----------------------------------------------------------------------------
(* Bounds of the model *)

MaxRuns == 2
MaxNested == 2
MaxFiles == 2

----------------------------------------------------------------------------
(* Names set by PostcodeParser.__init__ *)

staging_table == "postcode_staging"
geom_table == "postcode_polygons"
target_table == "postcode"
vstreet_table == "vstreet_table"
vstreet_target == "vstreetlookup"

(* The tables a statement of the program can name.  The two core_ tables    *)
(* are named by index_tables only; no stage creates them.                   *)
ForeignTables == {"core_postcode", "core_vstreetlookup"}
TableNames == {staging_table, geom_table, target_table, vstreet_table, vstreet_target}
                  \cup ForeignTables

(* public.<t> and <t> name the same table (the default search path) *)
Resolve(t) ==
    CASE t = "public.core_postcode" -> "core_postcode"
      [] t = "public.core_vstreetlookup" -> "core_vstreetlookup"
      [] OTHER -> t

----------------------------------------------------------------------------
(* Texts *)

NL == "\n"
COMMA == ","
NULL == "<null>"

LowerMap ==
    [ Postcode |-> "postcode",
      Positional_quality_indicator |-> "positional_quality_indicator",
      PO_Box_indicator |-> "po_box_indicator",
      Total_number_of_delivery_points |-> "total_number_of_delivery_points",
      Delivery_points_used_to_create_the_CPLC |-> "delivery_points_used_to_create_the_cplc",
      Domestic_delivery_points |-> "domestic_delivery_points",
      Non_domestic_delivery_points |-> "non_domestic_delivery_points",
      PO_Box_delivery_points |-> "po_box_delivery_points",
      Matched_address_premises |-> "matched_address_premises",
      Unmatched_delivery_points |-> "unmatched_delivery_points",
      Eastings |-> "eastings",
      Northings |-> "northings",
      Country_code |-> "country_code",
      NHS_regional_HA_code |-> "nhs_regional_ha_code",
      NHS_HA_code |-> "nhs_ha_code",
      Admin_county_code |-> "admin_county_code",
      Admin_district_code |-> "admin_district_code",
      Admin_ward_code |-> "admin_ward_code",
      Postcode_type |-> "postcode_type" ]

(* str.lower() on one symbol, and on a token *)
LowerSym(s) == IF s \in DOMAIN LowerMap THEN LowerMap[s] ELSE s
lower(token) == [i \in 1..Len(token) |-> LowerSym(token[i])]

(* file.readlines(): the lines of a text, each with its terminator *)
RECURSIVE ReadLinesFrom(_, _, _, _)
ReadLinesFrom(text, i, cur, acc) ==
    IF i > Len(text)
    THEN IF cur = <<>> THEN acc ELSE Append(acc, cur)
    ELSE IF text[i] = NL
         THEN ReadLinesFrom(text, i + 1, <<>>, Append(acc, Append(cur, NL)))
         ELSE ReadLinesFrom(text, i + 1, Append(cur, text[i]), acc)

readlines(text) == ReadLinesFrom(text, 1, <<>>, <<>>)

(* str.split(','): the tokens between delimiters; an empty text gives one empty token *)
RECURSIVE SplitFrom(_, _, _, _)
SplitFrom(line, i, cur, acc) ==
    IF i > Len(line)
    THEN Append(acc, cur)
    ELSE IF line[i] = COMMA
         THEN SplitFrom(line, i + 1, <<>>, Append(acc, cur))
         ELSE SplitFrom(line, i + 1, Append(cur, line[i]), acc)

split(line) == SplitFrom(line, 1, <<>>, <<>>)

(* An SQL identifier written as a token: the line terminator is white space *)
(* in SQL; what is left must be exactly one name.  "" is no identifier.      *)
StripWs(token) == SelectSeq(token, LAMBDA s : s # NL)
SqlIdent(token) == IF Len(StripWs(token)) = 1 THEN StripWs(token)[1] ELSE ""

(* field_1 .. field_N, the generic names the converter gives CSV columns *)
FieldNames ==
    << "field_1", "field_2", "field_3", "field_4", "field_5", "field_6", "field_7",
       "field_8", "field_9", "field_10", "field_11", "field_12", "field_13", "field_14",
       "field_15", "field_16", "field_17", "field_18", "field_19", "field_20",
       "field_21", "field_22" >>
FieldName(j) == IF j \in DOMAIN FieldNames THEN FieldNames[j] ELSE "field_n"

(* The values of a serial column, as the texts the store holds *)
SerialTexts ==
    << "1", "2", "3", "4", "5", "6", "7", "8", "9", "10", "11", "12", "13", "14", "15",
       "16", "17", "18", "19", "20" >>
Serial(n) == IF n \in DOMAIN SerialTexts THEN SerialTexts[n] ELSE "many"

----------------------------------------------------------------------------
(* Tables *)

NoTable == [exists |-> FALSE, cols |-> <<>>, types |-> <<>>, rows |-> <<>>, pk |-> {}]
MkTable(cols, types, rows) ==
    [exists |-> TRUE, cols |-> cols, types |-> types, rows |-> rows, pk |-> {}]

Range(seq) == {seq[i] : i \in DOMAIN seq}
ColSet(t) == Range(t.cols)
HasCol(t, c) == t.exists /\ c \in ColSet(t)
ColPos(t, c) == CHOOSE i \in DOMAIN t.cols : t.cols[i] = c
TypeOf(t, c) == t.types[ColPos(t, c)]
Distinct(seq) == \A i, j \in DOMAIN seq : seq[i] = seq[j] => i = j

(* The values an integer cast accepts; every other text makes the cast fail *)
NumericVals == {"1", "2", NULL}

EmptyStore == [tab |-> [t \in TableNames |-> NoTable], idx |-> {}]
Tab(d, t) == d.tab[Resolve(t)]
Known(t) == Resolve(t) \in TableNames
SetTab(d, t, table) == [d EXCEPT !.tab[Resolve(t)] = table]
(* DROP TABLE also drops the indexes of the table *)
DropTab(d, t) ==
    [tab |-> [d.tab EXCEPT ![Resolve(t)] = NoTable],
     idx |-> {i \in d.idx : i.t # Resolve(t)}]

Done(d) == [ok |-> TRUE, db |-> d]
Fail(d) == [ok |-> FALSE, db |-> d]

(* DROP TABLE [IF EXISTS] t *)
StmtDrop(d, s) ==
    IF Known(s.t) /\ Tab(d, s.t).exists THEN Done(DropTab(d, s.t))
    ELSE IF s.ifexists THEN Done(d) ELSE Fail(d)

(* ALTER TABLE t RENAME COLUMN from TO to *)
StmtRename(d, s) ==
    LET t == Tab(d, s.t)
        to == SqlIdent(s.to)
        cols == [i \in DOMAIN t.cols |-> IF t.cols[i] = s.from THEN to ELSE t.cols[i]]
        rows == [k \in DOMAIN t.rows |->
                    [c \in Range(cols) |-> IF c = to THEN t.rows[k][s.from] ELSE t.rows[k][c]]]
    IN  IF Known(s.t) /\ HasCol(t, s.from) /\ to # "" /\ to \notin ColSet(t)
        THEN Done(SetTab(d, s.t, [t EXCEPT !.cols = cols, !.rows = rows,
                                           !.pk = IF s.from \in t.pk THEN {to} ELSE t.pk]))
        ELSE Fail(d)

(* CREATE TABLE [IF NOT EXISTS] t AS SELECT cols FROM src *)
StmtCtas(d, s) ==
    LET src == Tab(d, s.src)
        out == MkTable(s.cols,
                       [i \in DOMAIN s.cols |-> TypeOf(src, s.cols[i])],
                       [k \in DOMAIN src.rows |-> [c \in Range(s.cols) |-> src.rows[k][c]]])
    IN  IF ~(Known(s.t) /\ Known(s.src) /\ src.exists /\ Range(s.cols) \subseteq ColSet(src))
        THEN Fail(d)
        ELSE IF Tab(d, s.t).exists
             THEN IF s.ifnotexists THEN Done(d) ELSE Fail(d)
             ELSE Done(SetTab(d, s.t, out))

(* One row of the join: the columns of the right table from g, those of    *)
(* the left table from a, or NULL when g has no match                       *)
JoinRow(a, g, matched, s, names) ==
    [c \in Range(names) |->
        IF s.fields[CHOOSE k \in DOMAIN names : names[k] = c].t = s.right THEN g[c]
        ELSE IF matched THEN a[c] ELSE NULL]

(* A mutant of Unmatched: the join is an inner join *)
Unmatched_Inner(g, s, names) == <<>>

(* RIGHT JOIN: a row of the right table without a match is kept *)
Unmatched(g, s, names) == << JoinRow(g, g, FALSE, s, names) >>

Matches(l, g, on) == SelectSeq(l.rows, LAMBDA a : a[on] # NULL /\ a[on] = g[on])

JoinOne(m, g, s, names) ==
    IF m = <<>> THEN Unmatched(g, s, names)
    ELSE [k \in DOMAIN m |-> JoinRow(m[k], g, TRUE, s, names)]

(* The rows of  l RIGHT JOIN r ON r.on = l.on  for the rows of r from the i-th on *)
RECURSIVE JoinRows(_, _, _, _, _)
JoinRows(l, r, s, names, i) ==
    IF i > Len(r.rows) THEN <<>>
    ELSE JoinOne(Matches(l, r.rows[i], s.on), r.rows[i], s, names)
         \o JoinRows(l, r, s, names, i + 1)

(* CREATE TABLE t AS SELECT fields FROM l RIGHT JOIN r ON r.on = l.on        *)
(* fields: a sequence of [t, c], c a token; the output column is named c.    *)
FieldIdents(s) == [i \in DOMAIN s.fields |-> SqlIdent(s.fields[i].c)]

JoinValid(d, s, names) ==
    /\ Known(s.t) /\ ~Tab(d, s.t).exists
    /\ HasCol(Tab(d, s.left), s.on) /\ HasCol(Tab(d, s.right), s.on)
    /\ \A i \in DOMAIN s.fields :
           /\ s.fields[i].t \in {s.left, s.right}
           /\ names[i] # ""
           /\ HasCol(Tab(d, s.fields[i].t), names[i])
    /\ Distinct(names)

JoinTable(d, s, names) ==
    MkTable(names,
            [i \in DOMAIN names |-> TypeOf(Tab(d, s.fields[i].t), names[i])],
            JoinRows(Tab(d, s.left), Tab(d, s.right), s, names, 1))

StmtCtasJoin(d, s) ==
    IF JoinValid(d, s, FieldIdents(s))
    THEN Done(SetTab(d, s.t, JoinTable(d, s, FieldIdents(s))))
    ELSE Fail(d)

(* ALTER TABLE t ALTER COLUMN c TYPE type [USING c::integer]                *)
(* An integer cast fails on a non-numeric text; the lengths of texts are    *)
(* not modelled, so a varchar(n) cast of an existing column succeeds.       *)
StmtAlterType(d, s) ==
    LET t == Tab(d, s.t)
        castable == s.type # "int" \/ \A k \in DOMAIN t.rows : t.rows[k][s.c] \in NumericVals
    IN  IF Known(s.t) /\ HasCol(t, s.c) /\ castable
        THEN Done(SetTab(d, s.t, [t EXCEPT !.types[ColPos(t, s.c)] = s.type]))
        ELSE Fail(d)

(* ALTER TABLE t ADD PRIMARY KEY (c) *)
StmtAddPk(d, s) ==
    LET t == Tab(d, s.t)
        vals == [k \in DOMAIN t.rows |-> t.rows[k][s.c]]
    IN  IF Known(s.t) /\ HasCol(t, s.c) /\ t.pk = {}
           /\ Distinct(vals) /\ \A k \in DOMAIN vals : vals[k] # NULL
        THEN Done(SetTab(d, s.t, [t EXCEPT !.pk = {s.c}]))
        ELSE Fail(d)

(* CREATE TABLE t (cols) *)
StmtCreate(d, s) ==
    IF Known(s.t) /\ ~Tab(d, s.t).exists
    THEN Done(SetTab(d, s.t, MkTable(s.cols, s.types, <<>>)))
    ELSE Fail(d)

(* ALTER TABLE t ADD COLUMN c BIGSERIAL: the rows are numbered from 1 in    *)
(* their physical order, which is the order they were loaded in             *)
StmtAddSerial(d, s) ==
    LET t == Tab(d, s.t)
        rows == [k \in DOMAIN t.rows |->
                    [c \in ColSet(t) \cup {s.c} |-> IF c = s.c THEN Serial(k) ELSE t.rows[k][c]]]
    IN  IF Known(s.t) /\ t.exists /\ s.c \notin ColSet(t)
        THEN Done(SetTab(d, s.t, [t EXCEPT !.cols = Append(t.cols, s.c),
                                           !.types = Append(t.types, "bigserial"),
                                           !.rows = rows]))
        ELSE Fail(d)

(* CREATE INDEX name ON t USING method (c [opclass]) *)
StmtIndex(d, s) ==
    IF Known(s.t) /\ HasCol(Tab(d, s.t), s.c) /\ \A i \in d.idx : i.name # s.name
    THEN Done([d EXCEPT !.idx = @ \cup {[name |-> s.name, t |-> Resolve(s.t), c |-> s.c,
                                         method |-> s.method, opclass |-> s.opclass]}])
    ELSE Fail(d)

ExecStmt(d, s) ==
    CASE s.op = "drop" -> StmtDrop(d, s)
      [] s.op = "rename" -> StmtRename(d, s)
      [] s.op = "ctas" -> StmtCtas(d, s)
      [] s.op = "ctas_join" -> StmtCtasJoin(d, s)
      [] s.op = "altertype" -> StmtAlterType(d, s)
      [] s.op = "addpk" -> StmtAddPk(d, s)
      [] s.op = "create" -> StmtCreate(d, s)
      [] s.op = "addserial" -> StmtAddSerial(d, s)
      [] s.op = "index" -> StmtIndex(d, s)

(* The result of a call that can raise: the store it leaves, whether it    *)
(* raised, and the number of the statement that failed (0: none)            *)
Returned(d) == [db |-> d, raised |-> FALSE, at |-> 0]
Raised(d, at) == [db |-> d, raised |-> TRUE, at |-> at]

(* The statements of a batch in order, up to the first that fails *)
RECURSIVE RunBatch(_, _, _)
BatchAfter(r, batch, i) ==
    IF r.ok THEN RunBatch(r.db, batch, i + 1) ELSE [ok |-> FALSE, db |-> r.db, at |-> i]
RunBatch(d, batch, i) ==
    IF i > Len(batch) THEN [ok |-> TRUE, db |-> d, at |-> 0]
    ELSE BatchAfter(ExecStmt(d, batch[i]), batch, i)

(* The end of a batch.  A mid-batch failure leaves the effects of the       *)
(* statements applied before it in the store: they persist, nothing is     *)
(* rolled back (spec 4.8, 5, 7).  A connection that cannot be opened runs   *)
(* no statement.                                                            *)
BatchEnd(d, r, connected) ==
    IF ~connected THEN Raised(d, 0)
    ELSE IF r.ok THEN Returned(r.db)
    ELSE Raised(r.db, r.at)

(* exec_sql_statements(batch): one connection, the statements in order.    *)
(* The first failure aborts the rest of the batch and is raised to the      *)
(* caller.  connected = FALSE: the connection cannot be opened.             *)
exec_sql_statements(d, batch, connected) == BatchEnd(d, RunBatch(d, batch, 1), connected)

----------------------------------------------------------------------------
(* Archives.  An entry is [dir, ext, body]: its directory, its suffix and   *)
(* what it holds: the entries of a nested archive, the features of a        *)
(* shapefile, the rows of a CSV file, the records of a TXT file.            *)

endswith(f, ext) == f.ext = ext
startswith(f, dir) == f.dir = dir

(* The external converter, os.system('ogr2ogr ... -nln nln -append'), on a  *)
(* shapefile: it creates nln when absent (ogc_fid serial primary key,       *)
(* wkb_geometry, the attributes) and appends one row per feature.  ok =     *)
(* FALSE is a failed invocation, which writes nothing.                      *)
ShpCols == << "ogc_fid", "wkb_geometry", "postcode", "pc_area" >>
ShpTypes == << "serial", "geometry", "varchar", "varchar" >>

ogr2ogr_shp(d, features, nln, ok) ==
    LET t == Tab(d, nln)
        base == IF t.exists THEN t
                ELSE [MkTable(ShpCols, ShpTypes, <<>>) EXCEPT !.pk = {"ogc_fid"}]
        new == [k \in DOMAIN features |->
                   [c \in Range(ShpCols) |->
                       IF c = "ogc_fid" THEN Serial(Len(base.rows) + k) ELSE features[k][c]]]
    IN  IF ok /\ base.cols = ShpCols
        THEN SetTab(d, nln, [base EXCEPT !.rows = @ \o new])
        ELSE d

(* The converter on a CSV file.  Its CSV driver reads the first line as the *)
(* list of field names unless one or more of its values is numeric; only    *)
(* then does it name the fields field_1..field_M and read the first line as *)
(* a feature.  HeaderNames[j] stands for the column name made from the j-th *)
(* value of a first line that was read as field names.                      *)
HeaderNames ==
    << "name_1", "name_2", "name_3", "name_4", "name_5", "name_6", "name_7",
       "name_8", "name_9", "name_10", "name_11", "name_12", "name_13", "name_14",
       "name_15", "name_16", "name_17", "name_18", "name_19", "name_20",
       "name_21", "name_22" >>
HasHeader(rows) ==
    rows # <<>> /\ \A j \in DOMAIN rows[1] : rows[1][j] \notin NumericVals \ {NULL}
CsvFields(rows) ==
    IF rows = <<>> THEN <<>>
    ELSE [j \in DOMAIN rows[1] |-> IF HasHeader(rows) THEN HeaderNames[j] ELSE FieldName(j)]
CsvFeatures(rows) == IF HasHeader(rows) THEN Tail(rows) ELSE rows

(* -append: the table is created from the fields of the file when absent;   *)
(* in an existing table a feature fills the columns that bear the name of   *)
(* one of its fields, the other columns are left NULL and the other fields  *)
(* are dropped                                                              *)
ogr2ogr_csv(d, rows, nln, ok) ==
    LET t == Tab(d, nln)
        src == CsvFields(rows)
        data == CsvFeatures(rows)
        base == IF t.exists THEN t
                ELSE [MkTable(<< "ogc_fid" >> \o src,
                              << "serial" >> \o [j \in DOMAIN src |-> "varchar"], <<>>)
                          EXCEPT !.pk = {"ogc_fid"}]
        new == [k \in DOMAIN data |->
                   [c \in Range(base.cols) |->
                       IF c = "ogc_fid" THEN Serial(Len(base.rows) + k)
                       ELSE IF c \in Range(src)
                            THEN data[k][CHOOSE j \in DOMAIN src : src[j] = c]
                            ELSE NULL]]
    IN  IF ok /\ rows # <<>>
        THEN SetTab(d, nln, [base EXCEPT !.rows = @ \o new])
        ELSE d

----------------------------------------------------------------------------
(* copy_from_csv(sql_command, csv_file) for COPY table FROM STDIN.          *)
(* outcome: "ok", or the step that fails: "connect", "copy", "commit".       *)
(* A failure is caught and printed.  The finally block then reads conn,     *)
(* which is unbound when connect() itself failed: UnboundLocalError leaves  *)
(* the function.  A COPY into a missing table fails as "copy" does.         *)
CopyOutcomes == {"ok", "connect", "copy", "commit"}

(* conn when the try block and its except clause are left: never bound when *)
(* connect() failed, open when a later step failed before conn.close(),     *)
(* closed after conn.close()                                                *)
ConnAfterTry(outcome) ==
    CASE outcome = "connect" -> "unbound"
      [] outcome \in {"copy", "commit"} -> "open"
      [] OTHER -> "closed"

(* A mutant of copy_finally: the connection is not closed on the way out *)
copy_finally_NoClose(conn) ==
    IF conn = "unbound" THEN [raised |-> TRUE, conn |-> conn]
    ELSE [raised |-> FALSE, conn |-> conn]

(* finally: if conn is not None: conn.close() *)
copy_finally(conn) ==
    IF conn = "unbound" THEN [raised |-> TRUE, conn |-> conn]
    ELSE [raised |-> FALSE, conn |-> "closed"]

copy_raises(outcome) == copy_finally(ConnAfterTry(outcome)).raised
(* The connections the call leaves open *)
copy_open(outcome) == IF copy_finally(ConnAfterTry(outcome)).conn = "open" THEN 1 ELSE 0

(* A mutant of copy_from_csv: the records replace the rows of the table *)
copy_from_csv_Replace(d, table, records, outcome) ==
    IF outcome = "ok" /\ Tab(d, table).exists
    THEN [db |-> SetTab(d, table,
                    [Tab(d, table) EXCEPT !.rows =
                        [k \in DOMAIN records |->
                            [postcode |-> records[k][1], vstreet_ref |-> records[k][2]]]]),
          raised |-> FALSE, logged |-> 0, open |-> copy_open(outcome)]
    ELSE [db |-> d, raised |-> copy_raises(outcome), logged |-> 1,
          open |-> copy_open(IF outcome = "ok" THEN "copy" ELSE outcome)]

copy_from_csv(d, table, records, outcome) ==
    LET t == Tab(d, table)
        fits == t.exists /\ t.cols = << "postcode", "vstreet_ref" >>
        new == [k \in DOMAIN records |->
                   [postcode |-> records[k][1], vstreet_ref |-> records[k][2]]]
    IN  IF outcome = "ok" /\ fits
        THEN [db |-> SetTab(d, table, [t EXCEPT !.rows = @ \o new]),
              raised |-> FALSE, logged |-> 0, open |-> copy_open(outcome)]
        ELSE [db |-> d, raised |-> copy_raises(outcome), logged |-> 1,
              open |-> copy_open(IF outcome = "ok" THEN "copy" ELSE outcome)]

----------------------------------------------------------------------------
(* Statement constructors *)

DropIfExists(t) == [op |-> "drop", t |-> t, ifexists |-> TRUE]
Drop(t) == [op |-> "drop", t |-> t, ifexists |-> FALSE]
Rename(t, from, to) == [op |-> "rename", t |-> t, from |-> from, to |-> to]
AlterType(t, c, type) == [op |-> "altertype", t |-> t, c |-> c, type |-> type]
AddPk(t, c) == [op |-> "addpk", t |-> t, c |-> c]
CreateIndex(name, t, method, c, opclass) ==
    [op |-> "index", name |-> name, t |-> t, method |-> method, c |-> c, opclass |-> opclass]

----------------------------------------------------------------------------
(* parse_polys *)

(* The finalization batch of parse_polys *)
PolysFinalBatch ==
    << Rename(staging_table, "ogc_fid", << "id" >>),
       Rename(staging_table, "wkb_geometry", << "polygon" >>),
       [op |-> "ctas", t |-> geom_table, ifnotexists |-> TRUE, src |-> staging_table,
        cols |-> << "id", "postcode", "pc_area", "polygon" >>],
       AddPk(geom_table, "id"),
       AlterType(geom_table, "polygon", "geography"),
       Drop(staging_table) >>

(* A mutant of NextFile: a failed converter call ends the loop *)
NextFile_StopOnFailure(k, n, ok) == IF ok THEN k + 1 ELSE n + 1

(* os.system(command) in the loop over n files: the exit status it returns *)
(* is not read, so after the k-th call the loop goes on to the next file   *)
(* whatever the call returned                                               *)
NextFile(k, n, ok) == k + 1

(* for file in SHP_FILES: the converter on each shapefile; conv[n] is the   *)
(* outcome of the n-th invocation of the stage                              *)
RECURSIVE ShpLoop(_, _, _, _, _)
ShpLoop(d, shps, k, base, conv) ==
    IF k > Len(shps) THEN d
    ELSE ShpLoop(ogr2ogr_shp(d, shps[k].body, staging_table, conv[base + k]),
                 shps, NextFile(k, Len(shps), conv[base + k]), base, conv)

ShpFiles(z) == SelectSeq(z.body, LAMBDA f : endswith(f, ".shp"))
ZipFiles(archive) == SelectSeq(archive, LAMBDA f : endswith(f, ".zip"))

RECURSIVE CountShp(_, _)
CountShp(zips, i) ==
    IF i > Len(zips) THEN 0 ELSE Len(ShpFiles(zips[i])) + CountShp(zips, i + 1)

(* for z_file in ZIP_FILES: the staging table is dropped for each nested    *)
(* archive, before its shapefiles are converted.  down is the number of the *)
(* exec_sql_statements call of the stage that cannot connect (0: none).     *)
RECURSIVE PolysLoop(_, _, _, _, _, _)
PolysConvert(e, zips, i, base, conv, down) ==
    IF e.raised THEN e
    ELSE PolysLoop(ShpLoop(e.db, ShpFiles(zips[i]), 1, base, conv),
                   zips, i + 1, base + Len(ShpFiles(zips[i])), conv, down)
PolysLoop(d, zips, i, base, conv, down) ==
    IF i > Len(zips) THEN Returned(d)
    ELSE PolysConvert(exec_sql_statements(d, << DropIfExists(staging_table) >>, down # i),
                      zips, i, base, conv, down)

PolysFinalize(loop, n, down) ==
    IF loop.raised THEN loop
    ELSE exec_sql_statements(loop.db, PolysFinalBatch, down # n + 1)

(* ZipFile(self.base_path / self.zip_file) raises when the attribute was    *)
(* never set or the file is not in the working directory                    *)
CanOpen(fs, name) == name # "" /\ name \in fs

parse_polys(d, archive, fs, zf, conv, down) ==
    IF ~CanOpen(fs, zf) THEN Raised(d, 0)
    ELSE PolysFinalize(PolysLoop(d, ZipFiles(archive), 1, 0, conv, down),
                       Len(ZipFiles(archive)), down)

----------------------------------------------------------------------------
(* parse_info *)

(* column_names = header_file.readlines()[-1].split(',') *)
HasLines(text) == readlines(text) # <<>>
ColumnNames(text) == split(readlines(text)[Len(readlines(text))])

Exclusion ==
    { << "postcode" >>, << "eastings" >>, << "northings" >>,
      << "delivery_points_used_to_create_the_cplc" >> }

(* The pairs (field_j, target_j) of the rename statements *)
ColumnPlan(column_names) ==
    [j \in DOMAIN column_names |-> << FieldName(j), lower(column_names[j]) >>]

Included(name) == name \notin Exclusion

(* fields: the projection of the join, as [t, c] references *)
Projection(column_names) ==
    LET plan == ColumnPlan(column_names)
        kept == SelectSeq(plan, LAMBDA pr : Included(pr[2]))
    IN  << [t |-> geom_table, c |-> << "id" >>],
           [t |-> geom_table, c |-> << "postcode" >>],
           [t |-> geom_table, c |-> << "pc_area" >>] >>
        \o [k \in DOMAIN kept |-> [t |-> staging_table, c |-> kept[k][2]]]
        \o << [t |-> geom_table, c |-> << "polygon" >>] >>

(* The type casts of the merge batch, in statement order *)
Casts ==
    << AlterType(target_table, "positional_quality_indicator", "int"),
       AlterType(target_table, "po_box_indicator", "varchar(2)"),
       AlterType(target_table, "total_number_of_delivery_points", "int"),
       AlterType(target_table, "domestic_delivery_points", "int"),
       AlterType(target_table, "non_domestic_delivery_points", "int"),
       AlterType(target_table, "po_box_delivery_points", "int"),
       AlterType(target_table, "matched_address_premises", "int"),
       AlterType(target_table, "unmatched_delivery_points", "int"),
       AlterType(target_table, "country_code", "varchar(16)"),
       AlterType(target_table, "nhs_regional_ha_code", "varchar(16)"),
       AlterType(target_table, "nhs_ha_code", "varchar(16)"),
       AlterType(target_table, "admin_county_code", "varchar(16)"),
       AlterType(target_table, "admin_district_code", "varchar(16)"),
       AlterType(target_table, "admin_ward_code", "varchar(16)"),
       AlterType(target_table, "postcode_type", "varchar(2)") >>

JoinStmt(column_names) ==
    [op |-> "ctas_join", t |-> target_table, fields |-> Projection(column_names),
     left |-> staging_table, right |-> geom_table, on |-> "postcode"]

(* A mutant of InfoBatch: the primary key is not added *)
InfoBatch_NoKey(column_names) ==
    [j \in DOMAIN column_names |->
        Rename(staging_table, FieldName(j), lower(column_names[j]))]
        \o << DropIfExists(target_table), JoinStmt(column_names) >>
        \o Casts
        \o << Drop(geom_table), Drop(staging_table) >>

(* The merge batch: the renames, the join, the casts, the key, the drops *)
InfoBatch(column_names) ==
    LET plan == ColumnPlan(column_names)
    IN  [j \in DOMAIN plan |-> Rename(staging_table, plan[j][1], plan[j][2])]
        \o << DropIfExists(target_table), JoinStmt(column_names) >>
        \o Casts
        \o << AddPk(target_table, "id"), Drop(geom_table), Drop(staging_table) >>

CsvFiles(archive) ==
    SelectSeq(archive, LAMBDA f : endswith(f, ".csv") /\ startswith(f, "Code-Point/Data/CSV"))

RECURSIVE CsvLoop(_, _, _, _)
CsvLoop(d, csvs, k, conv) ==
    IF k > Len(csvs) THEN d
    ELSE CsvLoop(ogr2ogr_csv(d, csvs[k].body, staging_table, conv[k]),
                 csvs, NextFile(k, Len(csvs), conv[k]), conv)

(* A mutant of InfoMerge: when the merge batch fails the stage drops the    *)
(* target table before the failure leaves it                                *)
InfoMerge_DropsOnFailure(e, archive, header, conv, down) ==
    IF e.raised THEN e
    ELSE LET r == exec_sql_statements(CsvLoop(e.db, CsvFiles(archive), 1, conv),
                                      InfoBatch(ColumnNames(header)), down # 2)
         IN  IF r.raised THEN [r EXCEPT !.db = DropTab(r.db, target_table)] ELSE r

InfoMerge(e, archive, header, conv, down) ==
    IF e.raised THEN e
    ELSE exec_sql_statements(CsvLoop(e.db, CsvFiles(archive), 1, conv),
                             InfoBatch(ColumnNames(header)), down # 2)

parse_info(d, archive, header, fs, zf, hf, conv, down) ==
    IF ~CanOpen(fs, hf) \/ ~HasLines(header) \/ ~CanOpen(fs, zf)
    THEN Raised(d, 0)
    ELSE InfoMerge(exec_sql_statements(d, << DropIfExists(staging_table) >>, down # 1),
                   archive, header, conv, down)

----------------------------------------------------------------------------
(* parse_vstreets *)

TxtFiles(archive) ==
    SelectSeq(archive,
              LAMBDA f : endswith(f, ".TXT") /\ startswith(f, "Polygons/Data/VERTICAL_STREETS"))

(* A mutant of VstreetsDropBatch: the target table is dropped as well *)
VstreetsDropBatch_DropsTarget ==
    << DropIfExists(vstreet_table), DropIfExists(vstreet_target), DropIfExists(target_table) >>

(* A mutant of VstreetsDropBatch: the final table of the last run is kept *)
VstreetsDropBatch_KeepTarget == << DropIfExists(vstreet_table) >>

VstreetsDropBatch == << DropIfExists(vstreet_table), DropIfExists(vstreet_target) >>

VstreetsCreateBatch ==
    << [op |-> "create", t |-> vstreet_table, cols |-> << "postcode", "vstreet_ref" >>,
        types |-> << "varchar(8)", "varchar(8)" >>] >>

SQL_COMMANDS_CLEAN ==
    << [op |-> "addserial", t |-> vstreet_table, c |-> "id"],
       [op |-> "ctas", t |-> vstreet_target, ifnotexists |-> FALSE, src |-> vstreet_table,
        cols |-> << "id", "postcode", "vstreet_ref" >>],
       AddPk(vstreet_target, "id") >>

SQL_COMMANDS_DROP == << Drop(vstreet_table) >>

(* for txt_file in TXT_FILES: copy_from_csv on each; outcomes[k] is what    *)
(* happens inside the k-th call.  A call that raises ends the loop.         *)
(* logged counts the errors printed, calls the calls made.                  *)
(* open counts the connections the calls left open.                         *)
RECURSIVE TxtLoop(_, _, _, _, _, _)
TxtNext(c, txts, k, outcomes, n, o) ==
    IF c.raised
    THEN [db |-> c.db, raised |-> TRUE, logged |-> n + c.logged, calls |-> k,
          open |-> o + c.open]
    ELSE TxtLoop(c.db, txts, k + 1, outcomes, n + c.logged, o + c.open)
TxtLoop(d, txts, k, outcomes, n, o) ==
    IF k > Len(txts)
    THEN [db |-> d, raised |-> FALSE, logged |-> n, calls |-> k - 1, open |-> o]
    ELSE TxtNext(copy_from_csv(d, vstreet_table, txts[k].body, outcomes[k]),
                 txts, k, outcomes, n, o)

(* What parse_vstreets reports: finalized when both closing batches ran *)
VsResult(e, loop, finalized) ==
    [db |-> e.db, raised |-> e.raised, logged |-> loop.logged, calls |-> loop.calls,
     open |-> loop.open, finalized |-> finalized /\ ~e.raised]
NoCopy == [logged |-> 0, calls |-> 0, open |-> 0]

VsDropStaging(e3, loop, down) ==
    IF e3.raised THEN VsResult(e3, loop, FALSE)
    ELSE VsResult(exec_sql_statements(e3.db, SQL_COMMANDS_DROP, down # 4), loop, TRUE)

VsFinalize(loop, down) ==
    IF loop.raised THEN VsResult(loop, loop, FALSE)
    ELSE VsDropStaging(exec_sql_statements(loop.db, SQL_COMMANDS_CLEAN, down # 3), loop, down)

VsCopy(e2, archive, outcomes, down) ==
    IF e2.raised THEN VsResult(e2, NoCopy, FALSE)
    ELSE VsFinalize(TxtLoop(e2.db, TxtFiles(archive), 1, outcomes, 0, 0), down)

VsCreate(e1, archive, outcomes, down) ==
    IF e1.raised THEN VsResult(e1, NoCopy, FALSE)
    ELSE VsCopy(exec_sql_statements(e1.db, VstreetsCreateBatch, down # 2),
                archive, outcomes, down)

parse_vstreets(d, archive, fs, zf, outcomes, down) ==
    IF ~CanOpen(fs, zf) THEN VsResult(Raised(d, 0), NoCopy, FALSE)
    ELSE VsCreate(exec_sql_statements(d, VstreetsDropBatch, down # 1),
                  archive, outcomes, down)

----------------------------------------------------------------------------
(* index_tables *)

IndexBatch ==
    << CreateIndex("core_postcode_polygon_id", "public.core_postcode", "gist", "polygon", ""),
       CreateIndex("core_postcode_postcode_36243775", "public.core_postcode", "btree",
                   "postcode", ""),
       CreateIndex("core_postcode_postcode_36243775_like", "public.core_postcode", "btree",
                   "postcode", "varchar_pattern_ops"),
       CreateIndex("core_vstreetlookup_postcode_4a092989", "public.core_vstreetlookup",
                   "btree", "postcode", ""),
       CreateIndex("core_vstreetlookup_postcode_4a092989_like", "public.core_vstreetlookup",
                   "btree", "postcode", "varchar_pattern_ops"),
       CreateIndex("core_vstreetlookup_vstreet_ref_b613262c", "public.core_vstreetlookup",
                   "btree", "vstreet_ref", ""),
       CreateIndex("core_vstreetlookup_vstreet_ref_b613262c_like",
                   "public.core_vstreetlookup", "btree", "vstreet_ref",
                   "varchar_pattern_ops") >>

index_tables(d, down) == exec_sql_statements(d, IndexBatch, down # 1)

----------------------------------------------------------------------------
(* prepare and cleanup *)

(* download_gdrive_folder is remote-storage glue, called here with two of   *)
(* its three parameters: the call returns when the glue is replaced by a    *)
(* working one and raises otherwise.  After it, the last .zip and the last  *)
(* .csv of the working directory are remembered.                            *)
IsZip(name) == name = "codepoint.zip"
IsCsv(name) == name = "headers.csv"

Scanned(fs, zf, hf) ==
    [files |-> fs,
     zip_file |-> IF \E f \in fs : IsZip(f) THEN CHOOSE f \in fs : IsZip(f) ELSE zf,
     header_file |-> IF \E f \in fs : IsCsv(f) THEN CHOOSE f \in fs : IsCsv(f) ELSE hf,
     raised |-> FALSE]

prepare(fs, has, zf, hf, download) ==
    IF download = "raise"
    THEN [files |-> fs, zip_file |-> zf, header_file |-> hf, raised |-> TRUE]
    ELSE Scanned(fs \cup has, zf, hf)

(* os.remove on every file of the working directory *)
cleanup(fs) == {}

----------------------------------------------------------------------------
(* parse(): the stages in program order; a stage that raises ends the call  *)

Stages == << "Prepare", "GeometryIngest", "AttributeIngest", "StreetIngest", "Index",
             "Cleanup" >>
StageNo(s) == CHOOSE i \in DOMAIN Stages : Stages[i] = s
(* A mutant of NextStage: the indexing stage is skipped *)
NextStage_SkipIndex(s) ==
    IF s = "StreetIngest" THEN "Cleanup"
    ELSE IF StageNo(s) < Len(Stages) THEN Stages[StageNo(s) + 1] ELSE "done"

NextStage(s) == IF StageNo(s) < Len(Stages) THEN Stages[StageNo(s) + 1] ELSE "done"

(* A mutant of parse_step: a stage that raised is followed by the next one *)
parse_step_Continue(stage, raised) ==
    IF StageNo(stage) < Len(Stages) THEN Stages[StageNo(stage) + 1] ELSE "done"

parse_step(stage, raised) == IF raised THEN "halted" ELSE NextStage(stage)

Ended(p) == p \in {"done", "halted"}

----------------------------------------------------------------------------
(* Inputs *)

PcNames ==
    << "AB1 2CD", "AB1 2CE", "AB1 2CF", "AB1 2CG", "AB1 2CH", "AB1 2CJ", "AB1 2CK",
       "AB1 2CL", "AB1 2CM", "AB1 2CN", "AB1 2CP", "AB1 2CQ" >>
PolyNames ==
    << "poly01", "poly02", "poly03", "poly04", "poly05", "poly06", "poly07",
       "poly08", "poly09", "poly10", "poly11", "poly12" >>
RefNames ==
    << "VS01", "VS02", "VS03", "VS04", "VS05", "VS06", "VS07", "VS08", "VS09", "VS10",
       "VS11", "VS12" >>
(* Postcode 0 is a postcode no shapefile holds *)
PcName(n) == IF n \in DOMAIN PcNames THEN PcNames[n] ELSE "ZZ9 9ZZ"
PolyName(n) == IF n \in DOMAIN PolyNames THEN PolyNames[n] ELSE "poly00"
RefName(n) == IF n \in DOMAIN RefNames THEN RefNames[n] ELSE "VS00"

Feature(n) == [postcode |-> PcName(n), pc_area |-> "AB", wkb_geometry |-> PolyName(n)]

RECURSIVE SumUpto(_, _)
SumUpto(f, i) == IF i = 0 THEN 0 ELSE f[i] + SumUpto(f, i - 1)
Sum(f) == SumUpto(f, Len(f))
Before(f, i) == Sum(SubSeq(f, 1, i - 1))

(* A nested archive with cnt shapefiles, one feature each, numbered from    *)
(* first; every shapefile comes with its .dbf                               *)
NestedZip(first, cnt) ==
    [dir |-> "Polygons/Data", ext |-> ".zip",
     body |-> [k \in 1..(2 * cnt) |->
                 IF k % 2 = 1
                 THEN [dir |-> "", ext |-> ".shp", body |-> << Feature(first + (k - 1) \div 2) >>]
                 ELSE [dir |-> "", ext |-> ".dbf", body |-> <<>>]]]

(* cnt[i] shapefiles in the i-th nested archive *)
ZipLayout(cnt) == [i \in DOMAIN cnt |-> NestedZip(Before(cnt, i) + 1, cnt[i])]

SeqsUpTo(S, n) == UNION {[1..k -> S] : k \in 0..n}

Layouts == {ZipLayout(cnt) : cnt \in SeqsUpTo(0..MaxFiles, MaxNested)}
BaseLayout == ZipLayout(<< 2 >>)

(* An attribute row of w columns for postcode n: the postcode first *)
AttrRow(n, v, w) == [j \in 1..w |-> IF j = 1 THEN PcName(n) ELSE v]
CsvEntry(rows) == [dir |-> "Code-Point/Data/CSV", ext |-> ".csv", body |-> rows]
(* The rows in one file, or cut into two files after the s-th row *)
CsvSection(rows, s) ==
    IF s = 0 \/ s > Len(rows) THEN << CsvEntry(rows) >>
    ELSE << CsvEntry(SubSeq(rows, 1, s)), CsvEntry(SubSeq(rows, s + 1, Len(rows))) >>

TxtEntry(recs) == [dir |-> "Polygons/Data/VERTICAL_STREETS", ext |-> ".TXT", body |-> recs]
(* cnt[k] records in the k-th TXT file, numbered through the files *)
TxtSection(cnt) ==
    [k \in DOMAIN cnt |->
        TxtEntry([r \in 1..cnt[k] |->
                    << PcName(Before(cnt, k) + r), RefName(Before(cnt, k) + r) >>])]
(* An entry of the street section that is no TXT file *)
Readme == << [dir |-> "Polygons/Data/VERTICAL_STREETS", ext |-> ".pdf", body |-> <<>>] >>

FullColumns ==
    << "Postcode", "Positional_quality_indicator", "PO_Box_indicator",
       "Total_number_of_delivery_points", "Delivery_points_used_to_create_the_CPLC",
       "Domestic_delivery_points", "Non_domestic_delivery_points",
       "PO_Box_delivery_points", "Matched_address_premises", "Unmatched_delivery_points",
       "Eastings", "Northings", "Country_code", "NHS_regional_HA_code", "NHS_HA_code",
       "Admin_county_code", "Admin_district_code", "Admin_ward_code", "Postcode_type" >>
(* The same columns with an excluded column last *)
FullColumnsNorthingsLast ==
    SelectSeq(FullColumns, LAMBDA c : c # "Northings") \o << "Northings" >>
ShortColumns == << "Postcode", "Eastings", "Northings", "Country_code" >>

(* The line that lists names, the delimiter between them *)
Line(names) ==
    [i \in 1..(2 * Len(names) - 1) |-> IF i % 2 = 1 THEN names[(i + 1) \div 2] ELSE COMMA]

CodesLine == Line(<< "PC", "PQ" >>) \o << NL >>

FullHeader == CodesLine \o Line(FullColumns) \o << NL >>
CoreStore ==
    [EmptyStore EXCEPT
        !.tab["core_postcode"] =
            MkTable(<< "id", "postcode", "polygon" >>, << "int", "varchar", "geography" >>, <<>>),
        !.tab["core_vstreetlookup"] =
            MkTable(<< "id", "postcode", "vstreet_ref" >>, << "int", "varchar", "varchar" >>, <<>>)]

AllFiles == {"codepoint.zip", "headers.csv"}

(* The remote folder holding an archive of the three sections and a header *)
Folder(zips, csvs, txts, header, has) ==
    [archive |-> zips \o csvs \o Readme \o txts, header |-> header, has |-> has]

----------------------------------------------------------------------------
(* The state machine *)

MaxFaults == 1

(* The folder whose attribute rows come in two CSV files beside the two     *)
(* shapefiles of the base layout.  With it one failure more is explored,    *)
(* so that a converter call can fail in Geometry Ingest and another in      *)
(* Attribute Ingest of one call of parse().                                 *)
FaultBudget ==
    IF gdrive = Folder(BaseLayout,
                       CsvSection(<< AttrRow(1, "1", 19), AttrRow(2, "1", 19) >>, 1),
                       TxtSection(<< 2 >>), FullHeader, AllFiles)
    THEN MaxFaults + 1
    ELSE MaxFaults

(* What the stage that ran last did: the outcomes of its converter calls    *)
(* (conv) or of its bulk copies (copy), the statement of a batch that       *)
(* failed (at), the connections its bulk copies left open (open)            *)
NoCalls == [copy |-> <<>>, calls |-> 0, finalized |-> FALSE, open |-> 0]
Start == [stage |-> "start", raised |-> FALSE, clean |-> TRUE, down |-> 0, at |-> 0,
          conv |-> <<>>, copy |-> <<>>, calls |-> 0, finalized |-> FALSE, open |-> 0]

InitWith(Folders, Stores) ==
    /\ gdrive \in Folders
    /\ db \in Stores
    /\ files = {}
    /\ zip_file = ""
    /\ header_file = ""
    /\ pc = "Prepare"
    /\ run = 1
    /\ trace = <<>>
    /\ last = Start
    /\ logged = 0
    /\ faults = 0
    /\ snap = <<>>

FinalTables(d) == [postcode |-> d.tab[target_table], vstreetlookup |-> d.tab[vstreet_target]]

(* The bookkeeping of one stage of parse(): where parse() goes next, what   *)
(* the stage did, and the final tables when the call ends                   *)
Step(stage, raised, cost, down, at, conv, c) ==
    /\ pc' = parse_step(stage, raised)
    /\ trace' = Append(trace, stage)
    /\ faults' = faults + cost
    /\ last' = [stage |-> stage, raised |-> raised,
                clean |-> last.clean /\ cost = 0 /\ ~(stage = "Prepare" /\ raised),
                down |-> down, at |-> at, conv |-> conv, copy |-> c.copy,
                calls |-> c.calls, finalized |-> c.finalized, open |-> c.open]
    /\ snap' = IF Ended(pc')
               THEN Append(snap, [tables |-> FinalTables(db'), clean |-> last'.clean,
                                  ingested |-> "Index" \in Range(trace'), pc |-> pc'])
               ELSE snap
    /\ UNCHANGED << gdrive, run >>

Cost(failed, down) == failed + (IF down = 0 THEN 0 ELSE 1)
Failures(f, good) == Cardinality({k \in DOMAIN f : f[k] # good})

(* A stage that works on the store: r is what its call returned *)
StoreStage(stage, r, cost, down, conv) ==
    /\ faults + cost <= FaultBudget
    /\ db' = r.db
    /\ UNCHANGED << files, zip_file, header_file, logged >>
    /\ Step(stage, r.raised, cost, down, r.at, conv, NoCalls)

PrepareDone(r) ==
    /\ files' = r.files
    /\ zip_file' = r.zip_file
    /\ header_file' = r.header_file
    /\ UNCHANGED << db, logged >>
    /\ Step("Prepare", r.raised, 0, 0, 0, <<>>, NoCalls)

Prepare ==
    /\ pc = "Prepare"
    /\ \E download \in {"ok", "raise"} :
        PrepareDone(prepare(files, gdrive.has, zip_file, header_file, download))

ParsePolys ==
    /\ pc = "GeometryIngest"
    /\ \E conv \in [1..CountShp(ZipFiles(gdrive.archive), 1) -> BOOLEAN],
          down \in 0..(Len(ZipFiles(gdrive.archive)) + 1) :
        StoreStage("GeometryIngest",
                   parse_polys(db, gdrive.archive, files, zip_file, conv, down),
                   Cost(Failures(conv, TRUE), down), down, conv)

ParseInfo ==
    /\ pc = "AttributeIngest"
    /\ \E conv \in [1..Len(CsvFiles(gdrive.archive)) -> BOOLEAN], down \in 0..2 :
        StoreStage("AttributeIngest",
                   parse_info(db, gdrive.archive, gdrive.header, files, zip_file,
                              header_file, conv, down),
                   Cost(Failures(conv, TRUE), down), down, conv)

VstreetsDone(r, outcomes, cost, down) ==
    /\ faults + cost <= FaultBudget
    /\ db' = r.db
    /\ logged' = logged + r.logged
    /\ UNCHANGED << files, zip_file, header_file >>
    /\ Step("StreetIngest", r.raised, cost, down, 0, <<>>,
            [copy |-> outcomes, calls |-> r.calls, finalized |-> r.finalized,
             open |-> r.open])

ParseVstreets ==
    /\ pc = "StreetIngest"
    /\ \E outcomes \in [1..Len(TxtFiles(gdrive.archive)) -> CopyOutcomes], down \in 0..4 :
        VstreetsDone(parse_vstreets(db, gdrive.archive, files, zip_file, outcomes, down),
                     outcomes, Cost(Failures(outcomes, "ok"), down), down)

IndexTables ==
    /\ pc = "Index"
    /\ \E down \in 0..1 : StoreStage("Index", index_tables(db, down), Cost(0, down), down, <<>>)

Cleanup ==
    /\ pc = "Cleanup"
    /\ files' = cleanup(files)
    /\ UNCHANGED << db, zip_file, header_file, logged >>
    /\ Step("Cleanup", FALSE, 0, 0, 0, <<>>, NoCalls)

(* The program is started again: a new PostcodeParser on the same store and *)
(* working directory                                                        *)
Rerun ==
    /\ Ended(pc)
    /\ run < MaxRuns
    /\ run' = run + 1
    /\ pc' = "Prepare"
    /\ trace' = <<>>
    /\ last' = Start
    /\ logged' = 0
    /\ zip_file' = ""
    /\ header_file' = ""
    /\ UNCHANGED << gdrive, db, files, faults, snap >>

Next ==
    \/ Prepare
    \/ ParsePolys
    \/ ParseInfo
    \/ ParseVstreets
    \/ IndexTables
    \/ Cleanup
    \/ Rerun

----------------------------------------------------------------------------
(* Specifications.  Each draws the remote folder from a family of inputs;   *)
(* every family holds the base folder, with which a call of parse() on a    *)
(* store that has the core_ tables runs to its end.                         *)

BaseCsv == CsvSection(<< AttrRow(1, "1", 19), AttrRow(2, "1", 19) >>, 0)
BaseTxt == TxtSection(<< 2 >>)
BaseFolder == Folder(BaseLayout, BaseCsv, BaseTxt, FullHeader, AllFiles)

(* The orchestration: archives with one or two nested archives or none, a   *)
(* header or an empty header file, any part of the folder missing           *)
Folders ==
    {Folder(z, BaseCsv, BaseTxt, h, has) :
        z \in {BaseLayout, ZipLayout(<< 1, 1 >>), <<>>},
        h \in {FullHeader, <<>>},
        has \in SUBSET AllFiles}

Init == InitWith(Folders, {EmptyStore, CoreStore})
Spec == Init /\ [][Next]_vars

(* Geometry ingest: every layout of nested archives and shapefiles *)
PolysFolders == {Folder(z, BaseCsv, BaseTxt, FullHeader, AllFiles) : z \in Layouts}
InitPolys == InitWith(PolysFolders, {CoreStore})
SpecPolys == InitPolys /\ [][Next]_vars

(* Attribute ingest: header texts and attribute rows.  The rows are for the *)
(* two postcodes of the base layout and for postcode 0, which has no        *)
(* geometry; w is the number of columns of the CSV files.                   *)
MaxRows == 2

HeaderEndings == { <<>>, << NL >>, << NL, NL >>, << COMMA, NL >> }
Headers ==
    {pre \o Line(cols) \o ending :
        pre \in { <<>>, CodesLine },
        cols \in {FullColumns, FullColumnsNorthingsLast, ShortColumns},
        ending \in HeaderEndings} \cup { <<>> }
ShortHeader == Line(ShortColumns) \o << NL >>

(* An attribute row whose j-th column alone holds a text that is no number *)
AttrRowBad(n, w, j) == [AttrRow(n, "1", w) EXCEPT ![j] = "x"]
(* The column Total_number_of_delivery_points, which the third cast is for *)
BadColumn == CHOOSE j \in DOMAIN FullColumns : FullColumns[j] = "Total_number_of_delivery_points"

AttrRows(w) == SeqsUpTo({AttrRow(n, "1", w) : n \in 0..2}, MaxRows)
                   \cup { << AttrRow(1, "x", w), AttrRow(2, "1", w) >>,
                          << AttrRowBad(1, w, BadColumn), AttrRow(2, "1", w) >> }
CsvSections(w) ==
    {CsvSection(rows, s) : rows \in AttrRows(w), s \in {0, 1}} \cup { <<>> }
ShortCsv == CsvSection(<< AttrRow(1, "1", 4), AttrRow(2, "1", 4) >>, 0)

InfoFolders ==
    {Folder(BaseLayout, c, BaseTxt, h, AllFiles) : c \in {BaseCsv, ShortCsv}, h \in Headers}
    \cup {Folder(BaseLayout, c, BaseTxt, FullHeader, AllFiles) : c \in CsvSections(19)}
    \cup {Folder(BaseLayout, c, BaseTxt, ShortHeader, AllFiles) : c \in CsvSections(4)}
InitInfo == InitWith(InfoFolders, {CoreStore})
SpecInfo == InitInfo /\ [][Next]_vars

(* Street ingest: up to MaxFiles TXT files of up to MaxRows records *)
StreetFolders ==
    {Folder(BaseLayout, BaseCsv, TxtSection(cnt), FullHeader, AllFiles) :
        cnt \in SeqsUpTo({0, 1, MaxRows}, MaxFiles)}
InitStreets == InitWith(StreetFolders, {CoreStore})
SpecStreets == InitStreets /\ [][Next]_vars

(* The converter calls: two shapefiles in one nested archive or in two,     *)
(* with the attribute rows of the base folder in one CSV file or in two     *)
SpecConv ==
    InitWith({Folder(z, CsvSection(<< AttrRow(1, "1", 19), AttrRow(2, "1", 19) >>, s),
                     BaseTxt, FullHeader, AllFiles) :
                 z \in {BaseLayout, ZipLayout(<< 1, 1 >>)}, s \in {0, 1}},
             {CoreStore})
        /\ [][Next]_vars
----------------------------------------------------------------------------
(* Properties *)

Target == db.tab[target_table]
Geometry == db.tab[geom_table]
StreetLookup == db.tab[vstreet_target]

Flatten(seqs) ==
    LET RECURSIVE From(_)
        From(i) == IF i > Len(seqs) THEN <<>> ELSE seqs[i] \o From(i + 1)
    IN  From(1)

(* The inputs of a call of parse(), read off the archive *)
InputFeatures ==
    Flatten([i \in DOMAIN ZipFiles(gdrive.archive) |->
                Flatten([k \in DOMAIN ShpFiles(ZipFiles(gdrive.archive)[i]) |->
                            ShpFiles(ZipFiles(gdrive.archive)[i])[k].body])])
InputAttrRows ==
    Flatten([k \in DOMAIN CsvFiles(gdrive.archive) |->
                CsvFeatures(CsvFiles(gdrive.archive)[k].body)])
InputRecords ==
    Flatten([k \in DOMAIN TxtFiles(gdrive.archive) |-> TxtFiles(gdrive.archive)[k].body])

Ran(stage) == last.stage = stage
Completed(stage) == last.stage = stage /\ ~last.raised

(* C1: in every call of parse() the stages entered so far are an initial   *)
(* part of Prepare, GeometryIngest, AttributeIngest, StreetIngest, Index,  *)
(* Cleanup, each entered once and in this order; the stage to run next is  *)
(* the successor of the last one entered; a call that returns has run all  *)
(* six, and a call ends earlier only when the stage that ran last raised.   *)
C1_StageOrder ==
    /\ Len(trace) <= Len(Stages)
    /\ \A i \in DOMAIN trace : trace[i] = Stages[i]
    /\ pc \in Range(Stages) => pc = Stages[Len(trace) + 1]
    /\ pc = "done" => trace = Stages
    /\ pc = "halted" => last.raised /\ last.stage = trace[Len(trace)]

C1_Witness == pc = "done" /\ trace = Stages /\ Target.exists /\ StreetLookup.exists

(* The persistent tables that the stages of tr have committed *)
CommittedTables(tr) ==
    (IF "GeometryIngest" \in Range(tr) THEN {geom_table} ELSE {})
        \cup (IF "AttributeIngest" \in Range(tr) THEN {target_table} ELSE {})
        \cup (IF "StreetIngest" \in Range(tr) THEN {vstreet_target} ELSE {})

(* C2: a stage of parse() that raises halts the call: the working          *)
(* directory keeps its files, the tables committed by the stages that      *)
(* completed before it are as they were, Cleanup has not run, and nothing  *)
(* more happens in that call (only a new call of parse() follows).         *)
C2_HaltOnFailure ==
    [][ /\ (run' = run /\ last'.raised) =>
              /\ pc' = "halted"
              /\ files' = files
              /\ "Cleanup" \notin Range(trace')
              /\ \A t \in CommittedTables(trace) : db'.tab[t] = db.tab[t]
        /\ pc = "halted" =>
              /\ run' = run + 1
              /\ pc' = "Prepare"
              /\ db' = db
              /\ files' = files ]_vars

C2_Witness ==
    /\ pc = "halted"
    /\ Ran("StreetIngest") /\ last.raised
    /\ Target.exists /\ Len(Target.rows) > 0
    /\ files = AllFiles

(* C3: when every converter call of Geometry Ingest succeeds and the stage *)
(* completes, the Geometry Table holds one row for every feature of every  *)
(* shapefile of every nested archive.                                      *)
C3_AllArchivesLoaded ==
    (Completed("GeometryIngest") /\ last.clean) =>
        /\ Geometry.exists
        /\ Len(Geometry.rows) = Len(InputFeatures)
        /\ {Geometry.rows[k].postcode : k \in DOMAIN Geometry.rows}
               = {InputFeatures[k].postcode : k \in DOMAIN InputFeatures}

(* The attribute columns of a target table *)
AttrCols(t) == ColSet(t) \ {"id", "postcode", "pc_area", "polygon"}

(* target is the right join on postcode of the attribute rows attrs (named *)
(* by the header columns names) with the geometry table geom                *)
RightJoinOf(geom, attrs, names, target) ==
    /\ target.exists
    /\ \A i \in DOMAIN geom.rows :
          LET g == geom.rows[i]
              mine == {k \in DOMAIN target.rows : target.rows[k].id = g.id}
              match == {a \in DOMAIN attrs : attrs[a][1] = g.postcode}
          IN  /\ mine # {}
              /\ \A k \in mine : /\ target.rows[k].postcode = g.postcode
                                 /\ target.rows[k].pc_area = g.pc_area
                                 /\ target.rows[k].polygon = g.polygon
              /\ match = {} =>
                    \A k \in mine : \A c \in AttrCols(target) : target.rows[k][c] = NULL
              /\ \A a \in match : \E k \in mine :
                    \A j \in DOMAIN names :
                        SqlIdent(lower(names[j])) \in AttrCols(target) =>
                            target.rows[k][SqlIdent(lower(names[j]))] = attrs[a][j]
    /\ \A k \in DOMAIN target.rows :
          \E i \in DOMAIN geom.rows : /\ geom.rows[i].id = target.rows[k].id
                                      /\ geom.rows[i].postcode = target.rows[k].postcode

(* C4: the target table that Attribute Ingest creates is the right join on *)
(* postcode: every geometry row is in it, with null attribute columns when *)
(* no attribute row has its postcode and with the values of the attribute  *)
(* row otherwise, and every row of it is the row of a geometry row.        *)
C4_RightJoin ==
    [][ (pc = "AttributeIngest" /\ pc' = "StreetIngest" /\ last'.clean) =>
            RightJoinOf(db.tab[geom_table], InputAttrRows, ColumnNames(gdrive.header),
                        db'.tab[target_table]) ]_vars

C4_Witness ==
    /\ Completed("AttributeIngest") /\ last.clean
    /\ \E k \in DOMAIN Target.rows : Target.rows[k].country_code = NULL
    /\ \E k \in DOMAIN Target.rows : Target.rows[k].country_code # NULL
    /\ \E a \in DOMAIN InputAttrRows : InputAttrRows[a][1] = PcName(0)

ExclusionNames == {SqlIdent(e) : e \in Exclusion}

(* The columns the header names, as the store reads them *)
HeaderColumns == [j \in DOMAIN ColumnNames(gdrive.header) |->
                     SqlIdent(lower(ColumnNames(gdrive.header)[j]))]

(* C5: the plan has one pair (field_j, target_j) per header column, and    *)
(* the target table has the columns id, postcode, pc_area, the header      *)
(* columns outside the exclusion set in header order, polygon.             *)
C5_Projection ==
    Completed("AttributeIngest") =>
        /\ Len(ColumnPlan(ColumnNames(gdrive.header))) = Len(HeaderColumns)
        /\ \A j \in DOMAIN HeaderColumns :
              ColumnPlan(ColumnNames(gdrive.header))[j][1] = FieldName(j)
        /\ Target.cols = << "id", "postcode", "pc_area" >>
                           \o SelectSeq(HeaderColumns, LAMBDA c : c \notin ExclusionNames)
                           \o << "polygon" >>

(* C6: of two calls of parse() in a row that meet no environment failure,  *)
(* the second ends with the final tables the first ended with, rows and    *)
(* keys, and it gets through the three ingest stages when the first did.    *)
C6_Idempotent ==
    \A i \in DOMAIN snap :
        (i + 1 \in DOMAIN snap /\ snap[i].clean /\ snap[i + 1].clean) =>
            /\ snap[i + 1].tables = snap[i].tables
            /\ snap[i].ingested => snap[i + 1].ingested

C6_Witness ==
    /\ Len(snap) >= 2
    /\ snap[1].clean /\ snap[2].clean
    /\ snap[1].ingested /\ snap[2].ingested
    /\ Len(snap[2].tables.postcode.rows) >= 2
    /\ Len(snap[2].tables.vstreetlookup.rows) >= 2

(* C7: with the header postcode,eastings,northings,country_code and an     *)
(* attribute row for every geometry postcode, Attribute Ingest completes   *)
(* and the target table has one row per geometry postcode and the columns  *)
(* id, postcode, pc_area, country_code, polygon.                           *)
C7_ShortHeader ==
    ( /\ Ran("AttributeIngest") /\ last.clean
      /\ gdrive.header \in {Line(ShortColumns), ShortHeader}
      /\ InputAttrRows # <<>>
      /\ \A k \in DOMAIN InputFeatures :
            \E a \in DOMAIN InputAttrRows : InputAttrRows[a][1] = InputFeatures[k].postcode )
    => /\ ~last.raised
       /\ Target.exists
       /\ Target.cols = << "id", "postcode", "pc_area", "country_code", "polygon" >>
       /\ Len(Target.rows) = Len(InputFeatures)

(* C8: after Street Ingest with every bulk copy succeeding, vstreetlookup  *)
(* has one row per record of the TXT files, in load order, with its        *)
(* postcode and vstreet_ref, and the ids 1..n in that order.               *)
C8_StreetRows ==
    (Completed("StreetIngest") /\ \A k \in DOMAIN last.copy : last.copy[k] = "ok") =>
        /\ StreetLookup.exists
        /\ Len(StreetLookup.rows) = Len(InputRecords)
        /\ \A k \in DOMAIN InputRecords :
              StreetLookup.rows[k] = [id |-> Serial(k), postcode |-> InputRecords[k][1],
                                      vstreet_ref |-> InputRecords[k][2]]

C8_Witness ==
    /\ Completed("StreetIngest")
    /\ \A k \in DOMAIN last.copy : last.copy[k] = "ok"
    /\ Len(TxtFiles(gdrive.archive)) >= 2
    /\ \A k \in DOMAIN TxtFiles(gdrive.archive) : TxtFiles(gdrive.archive)[k].body # <<>>
    /\ Len(StreetLookup.rows) >= 3

(* C9: every statement of the indexing stage names the target table or     *)
(* the street lookup table, and every index in the store after the stage   *)
(* is on one of the two.                                                   *)
C9_IndexesOnPipelineTables ==
    Ran("Index") =>
        /\ \A k \in DOMAIN IndexBatch :
              Resolve(IndexBatch[k].t) \in {target_table, vstreet_target}
        /\ \A i \in db.idx : i.t \in {target_table, vstreet_target}

(* C10: when a bulk copy of Street Ingest fails inside copy_from_csv, the  *)
(* error is printed, copy_from_csv returns, and parse_vstreets calls it    *)
(* for every TXT file and runs its finalization without raising.            *)
C10_CopyFailureSwallowed ==
    ( /\ Ran("StreetIngest") /\ last.down = 0
      /\ \E k \in 1..last.calls : last.copy[k] # "ok" )
    => /\ ~last.raised
       /\ last.calls = Len(TxtFiles(gdrive.archive))
       /\ last.finalized
       /\ logged >= 1

(* C11: on every way out of copy_from_csv (the copy done, the connection   *)
(* refused, the COPY or the commit failing) no connection the call opened  *)
(* is still open, so after Street Ingest, whatever happened inside its     *)
(* bulk copies, none is open.                                              *)
C11_ConnectionsClosed == Ran("StreetIngest") => last.open = 0

C11_Witness ==
    /\ Ran("StreetIngest")
    /\ \E k \in 1..last.calls : last.copy[k] \in {"copy", "commit"}
    /\ last.calls = Len(TxtFiles(gdrive.archive))
    /\ last.open = 0

(* The number of the cast of the merge batch that failed in the stage that *)
(* ran last (0: none): the casts follow the renames, the drop and the join *)
FailedCast(l) ==
    IF l.stage = "AttributeIngest" /\ l.raised /\ l.down = 0 /\ HasLines(gdrive.header)
           /\ l.at - (Len(ColumnNames(gdrive.header)) + 2) \in DOMAIN Casts
    THEN l.at - (Len(ColumnNames(gdrive.header)) + 2)
    ELSE 0

(* C12: when the k-th cast of the merge batch fails, the pipeline halts at  *)
(* that statement: the target table is there with the casts 1..k-1 applied *)
(* to it, the casts from the k-th on and the primary key are not applied,  *)
(* and neither postcode_polygons nor the staging table is dropped.         *)
C12_CastsRetained ==
    [][ (FailedCast(last') > 0 /\ pc = "AttributeIngest") =>
            /\ pc' = "halted"
            /\ db'.tab[target_table].exists
            /\ \A j \in 1..(FailedCast(last') - 1) :
                  /\ HasCol(db'.tab[target_table], Casts[j].c)
                  /\ TypeOf(db'.tab[target_table], Casts[j].c) = Casts[j].type
            /\ \A j \in FailedCast(last')..Len(Casts) :
                  HasCol(db'.tab[target_table], Casts[j].c) =>
                      TypeOf(db'.tab[target_table], Casts[j].c) = "varchar"
            /\ db'.tab[target_table].pk = {}
            /\ db'.tab[geom_table] = db.tab[geom_table]
            /\ db'.tab[staging_table].exists ]_vars

C12_Witness ==
    /\ FailedCast(last) >= 2
    /\ pc = "halted"
    /\ Target.exists /\ Len(Target.rows) >= 2
    /\ TypeOf(Target, Casts[1].c) = "int"
    /\ \E k \in DOMAIN Target.rows : Target.rows[k][Casts[FailedCast(last)].c] \notin NumericVals
    /\ Geometry.exists

(* id identifies the rows of t: none is null and no two rows share one *)
ValidKey(t) ==
    /\ \A k \in DOMAIN t.rows : t.rows[k].id # NULL
    /\ \A i, j \in DOMAIN t.rows : t.rows[i].id = t.rows[j].id => i = j

(* C13: whenever Attribute Ingest completes, id is the primary key of the  *)
(* target table, no row has a null id or a null polygon and no two rows    *)
(* share an id, whatever the attribute rows were; whenever Street Ingest   *)
(* completes, the same holds of the ids of vstreetlookup.                  *)
C13_ValidKeys ==
    /\ Completed("AttributeIngest") =>
          /\ Target.exists
          /\ Target.pk = {"id"}
          /\ ValidKey(Target)
          /\ \A k \in DOMAIN Target.rows : Target.rows[k].polygon # NULL
    /\ Completed("StreetIngest") =>
          /\ StreetLookup.exists
          /\ StreetLookup.pk = {"id"}
          /\ ValidKey(StreetLookup)

C13_Witness ==
    /\ Completed("AttributeIngest")
    /\ Len(Target.rows) >= 2
    /\ \E a, b \in DOMAIN InputAttrRows :
          a # b /\ InputAttrRows[a][1] = InputAttrRows[b][1]

(* C14: a call of parse() that got through the three ingestion stages      *)
(* ends with Cleanup run and the working directory empty, also when the     *)
(* indexing stage failed.                                                   *)
C14_CleanupAfterIngest ==
    (Ended(pc) /\ "Index" \in Range(trace)) =>
        /\ "Cleanup" \in Range(trace)
        /\ files = {}

(* Geometry Ingest of the current archive on a store without tables, every *)
(* converter call and every batch succeeding                                *)
PolysOnCleanStore ==
    parse_polys(EmptyStore, gdrive.archive, files, zip_file,
                [k \in 1..CountShp(ZipFiles(gdrive.archive), 1) |-> TRUE], 0)

(* C15: when postcode_polygons is in the store as Geometry Ingest starts   *)
(* and nothing in the environment fails, the stage completes and leaves    *)
(* postcode_polygons as a run on a clean store leaves it.                  *)
C15_PolysIdempotentOnRetry ==
    [][ ( /\ pc = "GeometryIngest" /\ last'.stage = "GeometryIngest"
          /\ db.tab[geom_table].exists
          /\ faults' = faults
          /\ ~PolysOnCleanStore.raised )
        => /\ ~last'.raised
           /\ db'.tab[geom_table] = PolysOnCleanStore.db.tab[geom_table] ]_vars

PipelineTables == {staging_table, geom_table, target_table, vstreet_table, vstreet_target}
Existing(d) == {t \in PipelineTables : d.tab[t].exists}

(* In batch, every DROP TABLE from comes after the CREATE TABLE made AS     *)
(* SELECT that reads it                                                     *)
DropsAfter(batch, from, made) ==
    \A i \in DOMAIN batch :
        (batch[i].op = "drop" /\ batch[i].t = from /\ ~batch[i].ifexists) =>
            \E j \in 1..(i - 1) :
                /\ batch[j].t = made
                /\ \/ batch[j].op = "ctas" /\ batch[j].src = from
                   \/ batch[j].op = "ctas_join" /\ from \in {batch[j].left, batch[j].right}

(* The store as Geometry Ingest reaches its i-th nested archive: what the   *)
(* archives before it left, with the converter outcomes conv and every     *)
(* batch succeeding                                                        *)
BeforeArchive(i, conv) ==
    PolysLoop(db, SubSeq(ZipFiles(gdrive.archive), 1, i - 1), 1, 0, conv, 0).db

(* Every row of the table from of d is in the table into of d *)
Consumed(d, from, into) ==
    \A k \in DOMAIN d.tab[from].rows :
        \E g \in DOMAIN d.tab[into].rows :
            d.tab[into].rows[g].postcode = d.tab[from].rows[k].postcode

(* C16: postcode_polygons leaves the store only in a completed Attribute   *)
(* Ingest, whose target table then exists and holds a row for each of its  *)
(* rows; a staging table is dropped only after the table that consumes it  *)
(* exists: in the closing batches the DROP follows the statement creating  *)
(* that table, and the staging table that Geometry Ingest drops as it      *)
(* reaches a nested archive holds no row that postcode_polygons lacks; a   *)
(* completed stage leaves its product and no staging table; and after a    *)
(* call that returned only postcode and vstreetlookup are left of the      *)
(* pipeline's tables.                                                      *)
C16_DropOrder ==
    [][ /\ (db.tab[geom_table].exists /\ ~db'.tab[geom_table].exists) =>
              /\ last'.stage = "AttributeIngest" /\ ~last'.raised
              /\ db'.tab[target_table].exists
              /\ \A i \in DOMAIN db.tab[geom_table].rows :
                    \E k \in DOMAIN db'.tab[target_table].rows :
                        db'.tab[target_table].rows[k].id = db.tab[geom_table].rows[i].id
        /\ DropsAfter(PolysFinalBatch, staging_table, geom_table)
        /\ (pc = "AttributeIngest" /\ HasLines(gdrive.header)) =>
              /\ DropsAfter(InfoBatch(ColumnNames(gdrive.header)), geom_table, target_table)
              /\ DropsAfter(InfoBatch(ColumnNames(gdrive.header)), staging_table,
                            target_table)
        /\ ( /\ pc = "GeometryIngest" /\ last'.stage = "GeometryIngest"
             /\ last'.down = 0 /\ CanOpen(files, zip_file) ) =>
              \A i \in DOMAIN ZipFiles(gdrive.archive) :
                  \A d \in {BeforeArchive(i, last'.conv)} :
                      Consumed(d, staging_table, geom_table)
        /\ (last'.stage = "GeometryIngest" /\ ~last'.raised /\ pc = "GeometryIngest") =>
              Existing(db') \cap {staging_table, geom_table} = {geom_table}
        /\ (last'.stage = "AttributeIngest" /\ ~last'.raised /\ pc = "AttributeIngest") =>
              Existing(db') \cap {staging_table, geom_table, target_table} = {target_table}
        /\ (last'.stage = "StreetIngest" /\ ~last'.raised /\ pc = "StreetIngest") =>
              Existing(db') \cap {vstreet_table, vstreet_target} = {vstreet_target}
        /\ pc' = "done" => Existing(db') = {target_table, vstreet_target} ]_vars

StreetTables == {vstreet_table, vstreet_target}

(* The three ingest stages on a store d, with the current archive and       *)
(* working directory and nothing failing in the environment                 *)
PolysOn(d) ==
    parse_polys(d, gdrive.archive, files, zip_file,
                [k \in 1..CountShp(ZipFiles(gdrive.archive), 1) |-> TRUE], 0).db
InfoOn(d) ==
    parse_info(d, gdrive.archive, gdrive.header, files, zip_file, header_file,
               [k \in 1..Len(CsvFiles(gdrive.archive)) |-> TRUE], 0).db
VstreetsOn(d) ==
    parse_vstreets(d, gdrive.archive, files, zip_file,
                   [k \in 1..Len(TxtFiles(gdrive.archive)) |-> "ok"], 0).db

(* The final tables of the three stages run on d in the three orders *)
StageOrders(d) ==
    {[pis |-> FinalTables(pis), psi |-> FinalTables(psi), spi |-> FinalTables(spi)] :
        pis \in {VstreetsOn(pi) : pi \in {InfoOn(p) : p \in {PolysOn(d)}}},
        psi \in {InfoOn(ps) : ps \in {VstreetsOn(p) : p \in {PolysOn(d)}}},
        spi \in {InfoOn(sp) : sp \in {PolysOn(s) : s \in {VstreetsOn(d)}}}}

(* C17: parse_vstreets changes no table but vstreet_table and              *)
(* vstreetlookup, and no index; parse_polys and parse_info change neither  *)
(* of these two; and running parse_vstreets before, between or after the   *)
(* other two stages ends with the same postcode and vstreetlookup.         *)
C17_StreetIndependent ==
    [][ /\ pc = "StreetIngest" =>
              /\ \A t \in TableNames \ StreetTables : db'.tab[t] = db.tab[t]
              /\ db'.idx = db.idx
        /\ pc \in {"GeometryIngest", "AttributeIngest"} =>
              \A t \in StreetTables : db'.tab[t] = db.tab[t]
        /\ pc = "GeometryIngest" =>
              \A o \in StageOrders(db) : o.pis = o.psi /\ o.pis = o.spi ]_vars

C17_Witness ==
    /\ Completed("StreetIngest")
    /\ Len(StreetLookup.rows) >= 2
    /\ Target.exists /\ Len(Target.rows) >= 2
    /\ \A o \in StageOrders(EmptyStore) : FinalTables(db) = o.spi

(* The shapefiles in the order of the converter calls of Geometry Ingest,  *)
(* each with the number of its nested archive                              *)
ShpCalls ==
    Flatten([i \in DOMAIN ZipFiles(gdrive.archive) |->
                [k \in DOMAIN ShpFiles(ZipFiles(gdrive.archive)[i]) |->
                    [zip |-> i, body |-> ShpFiles(ZipFiles(gdrive.archive)[i])[k].body]]])

(* The CSV files whose converter call succeeded, and their rows *)
SucceededCsv(conv) ==
    Flatten([k \in DOMAIN CsvFiles(gdrive.archive) |->
                IF conv[k] THEN << CsvFiles(gdrive.archive)[k] >> ELSE <<>>])
LoadedAttrRows(conv) ==
    Flatten([k \in DOMAIN SucceededCsv(conv) |-> CsvFeatures(SucceededCsv(conv)[k].body)])

(* Attribute Ingest on the current store with the CSV files whose call     *)
(* succeeded as the only CSV files, every call and every batch succeeding  *)
InfoOfSucceeded(conv) ==
    parse_info(db, SucceededCsv(conv), gdrive.header, files, zip_file, header_file,
               [k \in DOMAIN SucceededCsv(conv) |-> TRUE], 0)

(* C18: whatever the converter calls return, the stages go on.  Geometry   *)
(* Ingest on a store without postcode_polygons completes whenever some     *)
(* call on a shapefile of the last nested archive succeeded, and the       *)
(* features of every such shapefile, also those after a failed call, are   *)
(* in postcode_polygons.  Attribute Ingest does, for every outcome of its  *)
(* converter calls, what it does when the files of the failed calls are    *)
(* not in the archive: the files after a failed call are converted and the *)
(* merge batch is run on what they loaded, so that the stage raises only   *)
(* where that batch fails and, when it completes, has built the target     *)
(* table from the rows of every CSV file whose call succeeded.  A stage    *)
(* that raises with its files and connections there raises at a statement  *)
(* of a batch.                                                             *)
C18_ConverterOutcomeIgnored ==
    [][ /\ ( /\ pc = "GeometryIngest" /\ last'.stage = "GeometryIngest"
             /\ last'.down = 0
             /\ CanOpen(files, zip_file)
             /\ ~db.tab[geom_table].exists
             /\ \E m \in DOMAIN ShpCalls :
                   last'.conv[m] /\ ShpCalls[m].zip = Len(ZipFiles(gdrive.archive)) )
           => /\ ~last'.raised
              /\ \A m \in DOMAIN ShpCalls :
                    (last'.conv[m] /\ ShpCalls[m].zip = Len(ZipFiles(gdrive.archive))) =>
                        \A f \in DOMAIN ShpCalls[m].body :
                            \E k \in DOMAIN db'.tab[geom_table].rows :
                                /\ db'.tab[geom_table].rows[k].postcode
                                      = ShpCalls[m].body[f].postcode
                                /\ db'.tab[geom_table].rows[k].polygon
                                      = ShpCalls[m].body[f].wkb_geometry
        /\ ( /\ pc \in {"GeometryIngest", "AttributeIngest"} /\ last'.stage = pc
             /\ last'.down = 0 /\ last'.raised
             /\ CanOpen(files, zip_file)
             /\ pc = "AttributeIngest" => CanOpen(files, header_file) /\ HasLines(gdrive.header) )
           => last'.at >= 1
        /\ ( /\ pc = "AttributeIngest" /\ last'.stage = "AttributeIngest"
             /\ last'.down = 0 )
           => \A ref \in {InfoOfSucceeded(last'.conv)} :
                  /\ db' = ref.db
                  /\ last'.raised = ref.raised
                  /\ last'.at = ref.at
        /\ ( /\ pc = "AttributeIngest" /\ last'.stage = "AttributeIngest"
             /\ ~last'.raised )
           => RightJoinOf(db.tab[geom_table], LoadedAttrRows(last'.conv),
                          ColumnNames(gdrive.header), db'.tab[target_table]) ]_vars

(* Geometry Ingest lost the first shapefile to a failed call and went on   *)
(* to the second; Attribute Ingest lost the first CSV file to a failed     *)
(* call, went on to the second and completed with its row                  *)
C18_Witness ==
    /\ Completed("AttributeIngest")
    /\ last.conv = << FALSE, TRUE >>
    /\ Len(InputFeatures) = 2
    /\ Len(Target.rows) = 1
    /\ Target.rows[1].postcode = PcName(2)
    /\ Target.rows[1].country_code = "1"
    /\ ~Geometry.exists /\ ~db.tab[staging_table].exists

(* A header text without the line terminators that end it *)
RECURSIVE Trimmed(_)
Trimmed(text) ==
    IF text = <<>> \/ text[Len(text)] # NL THEN text
    ELSE Trimmed(SubSeq(text, 1, Len(text) - 1))

(* C19: the plan made from a header file whose column line ends with a     *)
(* line terminator or is followed by blank lines is the plan made from the *)
(* file without them, and no target name of it is empty or holds a line    *)
(* terminator.                                                             *)
C19_LastNonEmptyLine ==
    (Ran("AttributeIngest") /\ CanOpen(files, header_file) /\ HasLines(gdrive.header)) =>
        /\ ColumnPlan(ColumnNames(gdrive.header))
              = ColumnPlan(ColumnNames(Trimmed(gdrive.header)))
        /\ \A j \in DOMAIN ColumnPlan(ColumnNames(gdrive.header)) :
              /\ ColumnPlan(ColumnNames(gdrive.header))[j][2] # <<>>
              /\ NL \notin Range(ColumnPlan(ColumnNames(gdrive.header))[j][2])
====
